---- MODULE Spec2Model ----
(***************************************************************************)
(* The dfget task manager of the supernode                                 *)
(* (supernode/daemon/mgr/dfgettask/manager.go).                            *)
(*                                                                         *)
(* Identifiers (paths, peer IDs, client IDs, task IDs, keys) are strings,  *)
(* modelled as sequences of one-character strings so that concatenation,   *)
(* HasPrefix, HasSuffix and Split are computed as the code computes them.  *)
(* Task records live on a heap and the primary store holds pointers to     *)
(* them, as the Go code stores *types.DfGetTask.  Every goroutine calling  *)
(* the manager is a worker with a program counter and the locals of the    *)
(* call it is in.                                                          *)
(***************************************************************************)
EXTENDS Integers, Sequences, FiniteSets, TLC

\* ------------------------------------------------------------------ bounds
\* number of calls made in a behaviour (caps the counters); each call may be
\* made by a goroutine of its own
MaxCalls == 3

Workers == 1..MaxCalls

\* ------------------------------------------------------------ input values
DfGetTaskStatusWAITING == "WAITING"
DfGetTaskStatusRUNNING == "RUNNING"
DfGetTaskStatusSUCCESS == "SUCCESS"
DfGetTaskStatusFAILED == "FAILED"

\* the statuses a caller hands to Add ("" is the absent status)
AddStatuses == {"", DfGetTaskStatusRUNNING}
\* the statuses a caller hands to UpdateStatus
NewStatuses == {DfGetTaskStatusRUNNING, DfGetTaskStatusSUCCESS, DfGetTaskStatusFAILED}
\* every label value the gauge is asked for
StatusLabels == ({DfGetTaskStatusWAITING} \cup AddStatuses \cup NewStatuses) \ {""}

CallSystems == {"a", "b"}

\* the identities the supernode reserves for itself
SuperPIDs == {<<"S">>}
SuperCIDs == {<<"s">>}

\* identifiers of the calls made one at a time
PeerIDs == {<<"p">>, <<"S">>}
CIDs == {<<"c">>, <<"d">>, <<"s">>}
TaskIDs == {<<"t">>}

\* identifiers of the concurrent Add calls: some hold the separator
WidePeerIDs == {<<"p">>, <<"S">>}
WideCIDs == {<<"c">>, <<"c", "@", "x">>}
WideTaskIDs == {<<"t">>, <<"x", "@", "t">>}

\* the well-formed records over the given identifiers
ValidTasks(P, C, K, A, S) ==
    [Path : {<<"f">>}, PeerID : P, CID : C, TaskID : K, CallSystem : A, Status : S]

\* record t with the fields F left empty
Blanked(t, F) == [f \in DOMAIN t |-> IF f \in F THEN <<>> ELSE t[f]]

\* a record with one or more of the required fields empty
EmptyFieldTasks ==
    {Blanked([Path |-> <<"f">>, PeerID |-> <<"p">>, CID |-> <<"c">>, TaskID |-> <<"t">>,
              CallSystem |-> "a", Status |-> ""], F) :
        F \in (SUBSET {"Path", "PeerID", "CID", "TaskID"}) \ {{}}}

Tasks == ValidTasks(PeerIDs, CIDs, TaskIDs, CallSystems, AddStatuses) \cup EmptyFieldTasks

WideTasks == ValidTasks(WidePeerIDs, WideCIDs, WideTaskIDs, {"a"}, {""})

\* identifiers without the join character, some a prefix or a suffix of
\* another, for the scans of the index
ScanPeerIDs == {<<"p">>, <<"p", "q">>, <<"q">>}
ScanCIDs == {<<"c">>, <<"d">>, <<"e">>}
ScanTaskIDs == {<<"t">>, <<"u", "t">>}
ScanTasks == ValidTasks(ScanPeerIDs, ScanCIDs, ScanTaskIDs, {"a"}, {""})

\* two records of one key, client ID @ task ID, with different peer IDs, for
\* the calls that run concurrently on one key
ConcPeerIDs == {<<"p">>, <<"S">>}
ConcCIDs == {<<"c">>}
ConcTaskIDs == {<<"t">>}
ConcTasks == ValidTasks(ConcPeerIDs, ConcCIDs, ConcTaskIDs, {"a"}, {""})

\* ------------------------------------------------------------------- state
VARIABLES
    dfgetTaskStore,          \* key -> pointer to a task record
    ptoc,                    \* peer key -> client ID
    heap,                    \* pointer -> task record
    dfgetTasks,              \* gauge, by <<callsystem, status>>
    dfgetTasksRegisterCount, \* counter, by callsystem
    dfgetTasksFailCount,     \* counter, by callsystem
    pc,                      \* worker -> position in its call
    arg,                     \* worker -> the arguments of its call, as passed
    dfgetTask,               \* worker -> the local pointer dfgetTask (0 is nil)
    err,                     \* worker -> the error its call returned
    calls,                   \* number of calls made so far
    before                   \* the registry as it was when the one call under way began

stores == <<dfgetTaskStore, ptoc>>
metrics == <<dfgetTasks, dfgetTasksRegisterCount, dfgetTasksFailCount>>
vars == <<dfgetTaskStore, ptoc, heap, dfgetTasks, dfgetTasksRegisterCount,
          dfgetTasksFailCount, pc, arg, dfgetTask, err, calls, before>>

\* --------------------------------------------------------- pure functions
keyJoinChar == <<"@">>

IsEmptyStr(s) == s = <<>>

generateKey(cID, taskID) ==
    IF IsEmptyStr(cID) THEN [err |-> "EmptyValue", key |-> <<>>]
    ELSE IF IsEmptyStr(taskID) THEN [err |-> "EmptyValue", key |-> <<>>]
    ELSE [err |-> "nil", key |-> cID \o keyJoinChar \o taskID]

generatePeerKey(peerID, taskID) == peerID \o keyJoinChar \o taskID

IsSuperPID(peerID) == peerID \in SuperPIDs

IsSuperCID(clientID) == clientID \in SuperCIDs

\* ------------------------------------------------------- the two stores
\* dutil.Store.Get
StoreGet(key) ==
    IF key \in DOMAIN dfgetTaskStore
    THEN [err |-> "nil", v |-> dfgetTaskStore[key]]
    ELSE [err |-> "NotFound", v |-> 0]

\* syncmap.SyncMap.GetAsString
GetAsString(key) ==
    IF key \in DOMAIN ptoc
    THEN [err |-> "nil", v |-> ptoc[key]]
    ELSE [err |-> "NotFound", v |-> <<>>]

\* a map with key k set to v, and with key k removed
MapPut(m, k, v) == [x \in DOMAIN m \cup {k} |-> IF x = k THEN v ELSE m[x]]
MapDelete(m, k) == [x \in DOMAIN m \ {k} |-> m[x]]

getDfgetTask(clientID, taskID) ==
    LET k == generateKey(clientID, taskID)
    IN  IF k.err # "nil" THEN [err |-> k.err, v |-> 0] ELSE StoreGet(k.key)

Get(clientID, taskID) == getDfgetTask(clientID, taskID)

GetCIDByPeerIDAndTaskID(peerID, taskID) == GetAsString(generatePeerKey(peerID, taskID))

\* ------------------------------------------------- the scans of the index
\* strings.HasPrefix, strings.HasSuffix
HasPrefix(s, prefix) ==
    Len(s) >= Len(prefix) /\ SubSeq(s, 1, Len(prefix)) = prefix

HasSuffix(s, suffix) ==
    Len(s) >= Len(suffix) /\ SubSeq(s, Len(s) - Len(suffix) + 1, Len(s)) = suffix

\* strings.Split, for a non-empty separator: the segments of s between the
\* occurrences of sep, from left to right
RECURSIVE Split(_, _)
Split(s, sep) ==
    LET at == {i \in 1..Len(s) : HasPrefix(SubSeq(s, i, Len(s)), sep)}
    IN  IF at = {} THEN <<s>>
        ELSE LET i == CHOOSE i \in at : \A j \in at : i <= j
             IN  <<SubSeq(s, 1, i - 1)>> \o Split(SubSeq(s, i + Len(sep), Len(s)), sep)

\* SyncMap.Range visits the keys in an order of its own: the orders in which
\* the keys S can be visited
RECURSIVE Orders(_)
Orders(S) ==
    IF S = {} THEN {<<>>}
    ELSE UNION {{<<key>> \o o : o \in Orders(S \ {key})} : key \in S}

\* GetCIDsByTaskID with the task ID alone as the suffix to look for
GetCIDsByTaskID_NoSeparator(taskID) ==
    LET suffixString == taskID
        matching == {key \in DOMAIN ptoc : HasSuffix(key, suffixString)}
    IN  {[i \in 1..Len(o) |-> GetAsString(o[i]).v] : o \in Orders(matching)}

\* lines 129-153: the slices the call can return, one for each order of the
\* range over the index; a nil slice is the empty sequence
GetCIDsByTaskID(taskID) ==
    LET suffixString == keyJoinChar \o taskID
        matching == {key \in DOMAIN ptoc : HasSuffix(key, suffixString)}
    IN  {[i \in 1..Len(o) |-> GetAsString(o[i]).v] : o \in Orders(matching)}

\* lines 168-178, for the keys o still to visit: result[cid] is set to the
\* last segment of each key in turn
RECURSIVE rangeFunc(_, _)
rangeFunc(o, result) ==
    IF o = <<>> THEN result
    ELSE LET key == Head(o)
             cid == GetAsString(key).v
             splitResult == Split(key, keyJoinChar)
         IN  rangeFunc(Tail(o), MapPut(result, cid, splitResult[Len(splitResult)]))

\* GetCIDAndTaskIDsByPeerID with the peer ID alone as the prefix to look for
GetCIDAndTaskIDsByPeerID_NoSeparator(peerID) ==
    LET prefixStr == peerID
        matching == {key \in DOMAIN ptoc : HasPrefix(key, prefixStr)}
    IN  {rangeFunc(o, <<>>) : o \in Orders(matching)}

\* lines 156-182: the maps the call can return, one for each order of the
\* range over the index
GetCIDAndTaskIDsByPeerID(peerID) ==
    LET prefixStr == peerID \o keyJoinChar
        matching == {key \in DOMAIN ptoc : HasPrefix(key, prefixStr)}
    IN  {rangeFunc(o, <<>>) : o \in Orders(matching)}

\* the primary store by value: key -> the record its pointer leads to
Records == [k \in DOMAIN dfgetTaskStore |-> heap[dfgetTaskStore[k]]]

\* the registry as a caller can observe it
Snapshot == [Records |-> Records, ptoc |-> ptoc, dfgetTasks |-> dfgetTasks,
             dfgetTasksRegisterCount |-> dfgetTasksRegisterCount,
             dfgetTasksFailCount |-> dfgetTasksFailCount]

\* --------------------------------------------------------------- the heap
\* the records some pointer still leads to
Reachable(store, held) == {store[k] : k \in DOMAIN store} \cup {held[w] : w \in Workers}

\* the heap without the records nothing points to
Collect(h, store, held) == [i \in DOMAIN h \cap Reachable(store, held) |-> h[i]]

\* the pointer of a record the caller allocates for its next Add
NewPointer == CHOOSE i \in 1..(Cardinality(DOMAIN heap) + 1) :
                  /\ i \notin DOMAIN heap
                  /\ \A j \in 1..(i - 1) : j \in DOMAIN heap

Inc(m, l) == [m EXCEPT ![l] = @ + 1]
Dec(m, l) == [m EXCEPT ![l] = @ - 1]

\* the goroutine that makes the next call: which one it is does not matter,
\* so it is the first that is not in a call
Caller(w) == pc[w] = "idle" /\ \A v \in 1..(w - 1) : pc[v] # "idle"

\* what a call records as it begins: the registry as it is, when no other call
\* is under way to change it
Observed == IF \A v \in Workers : pc[v] = "idle" THEN Snapshot ELSE <<>>

\* ------------------------------------------------------------------- Init
Init ==
    /\ dfgetTaskStore = <<>>
    /\ ptoc = <<>>
    /\ heap = <<>>
    /\ dfgetTasks = [l \in CallSystems \X StatusLabels |-> 0]
    /\ dfgetTasksRegisterCount = [c \in CallSystems |-> 0]
    /\ dfgetTasksFailCount = [c \in CallSystems |-> 0]
    /\ pc = [w \in Workers |-> "idle"]
    /\ arg = [w \in Workers |-> <<>>]
    /\ dfgetTask = [w \in Workers |-> 0]
    /\ err = [w \in Workers |-> "nil"]
    /\ calls = 0
    /\ before = <<>>

\* -------------------------------------------------------------------- Add
\* Add as it would be without the check of the client ID and the task ID
Add_NoKeyCheck(w, t) ==
    /\ Caller(w)
    /\ calls < MaxCalls
    /\ calls' = calls + 1
    /\ before' = Observed
    /\ arg' = [arg EXCEPT ![w] = t]
    /\ dfgetTask' = [dfgetTask EXCEPT ![w] = NewPointer]
    /\ LET e == IF IsEmptyStr(t.Path) THEN "EmptyValue"
                ELSE IF IsEmptyStr(t.PeerID) THEN "EmptyValue"
                ELSE "nil"
           status == IF t.Status = "" THEN DfGetTaskStatusWAITING ELSE t.Status
       IN  /\ err' = [err EXCEPT ![w] = e]
           /\ pc' = [pc EXCEPT ![w] = IF e = "nil" THEN "AddPtoc" ELSE "AddDone"]
           /\ heap' = MapPut(heap, NewPointer,
                             IF e = "nil" THEN [t EXCEPT !.Status = status] ELSE t)
    /\ UNCHANGED <<stores, metrics>>

\* lines 85-102: the caller's record t is checked and its status defaulted
Add(w, t) ==
    /\ Caller(w)
    /\ calls < MaxCalls
    /\ calls' = calls + 1
    /\ before' = Observed
    /\ arg' = [arg EXCEPT ![w] = t]
    /\ dfgetTask' = [dfgetTask EXCEPT ![w] = NewPointer]
    /\ LET e == IF IsEmptyStr(t.Path) THEN "EmptyValue"
                ELSE IF IsEmptyStr(t.PeerID) THEN "EmptyValue"
                ELSE generateKey(t.CID, t.TaskID).err
           status == IF t.Status = "" THEN DfGetTaskStatusWAITING ELSE t.Status
       IN  /\ err' = [err EXCEPT ![w] = e]
           /\ pc' = [pc EXCEPT ![w] = IF e = "nil" THEN "AddPtoc" ELSE "AddDone"]
           /\ heap' = MapPut(heap, NewPointer,
                             IF e = "nil" THEN [t EXCEPT !.Status = status] ELSE t)
    /\ UNCHANGED <<stores, metrics>>

\* line 106
AddPtoc(w) ==
    /\ pc[w] = "AddPtoc"
    /\ LET t == heap[dfgetTask[w]]
       IN  ptoc' = MapPut(ptoc, generatePeerKey(t.PeerID, t.TaskID), t.CID)
    /\ pc' = [pc EXCEPT ![w] = "AddPut"]
    /\ UNCHANGED <<dfgetTaskStore, heap, metrics, arg, dfgetTask, err, calls, before>>

\* AddPut as it would be if the store were rebuilt around the new entry,
\* losing what was put meanwhile
AddPut_LosesOthers(w) ==
    /\ pc[w] = "AddPut"
    /\ LET t == heap[dfgetTask[w]]
       IN  dfgetTaskStore' = MapPut(<<>>, generateKey(t.CID, t.TaskID).key, dfgetTask[w])
    /\ heap' = Collect(heap, dfgetTaskStore', dfgetTask)
    /\ pc' = [pc EXCEPT ![w] = "AddMetrics"]
    /\ UNCHANGED <<ptoc, metrics, arg, dfgetTask, err, calls, before>>

\* AddPut as it would be with the record stored under its peer key
AddPut_PeerKey(w) ==
    /\ pc[w] = "AddPut"
    /\ LET t == heap[dfgetTask[w]]
       IN  dfgetTaskStore' = MapPut(dfgetTaskStore, generatePeerKey(t.PeerID, t.TaskID),
                                    dfgetTask[w])
    /\ heap' = Collect(heap, dfgetTaskStore', dfgetTask)
    /\ pc' = [pc EXCEPT ![w] = "AddMetrics"]
    /\ UNCHANGED <<ptoc, metrics, arg, dfgetTask, err, calls, before>>

\* line 107
AddPut(w) ==
    /\ pc[w] = "AddPut"
    /\ LET t == heap[dfgetTask[w]]
       IN  dfgetTaskStore' = MapPut(dfgetTaskStore, generateKey(t.CID, t.TaskID).key,
                                    dfgetTask[w])
    /\ heap' = Collect(heap, dfgetTaskStore', dfgetTask)
    /\ pc' = [pc EXCEPT ![w] = "AddMetrics"]
    /\ UNCHANGED <<ptoc, metrics, arg, dfgetTask, err, calls, before>>

\* AddMetrics as it would be if one reserved identity were enough to leave
\* the record uncounted
AddMetrics_EitherReserved(w) ==
    /\ pc[w] = "AddMetrics"
    /\ LET t == heap[dfgetTask[w]]
       IN  IF ~IsSuperPID(t.PeerID) /\ ~IsSuperCID(t.CID)
           THEN /\ dfgetTasks' = Inc(dfgetTasks, <<t.CallSystem, t.Status>>)
                /\ dfgetTasksRegisterCount' = Inc(dfgetTasksRegisterCount, t.CallSystem)
           ELSE UNCHANGED <<dfgetTasks, dfgetTasksRegisterCount>>
    /\ pc' = [pc EXCEPT ![w] = "AddDone"]
    /\ UNCHANGED <<stores, heap, dfgetTasksFailCount, arg, dfgetTask, err, calls, before>>

\* lines 109-115
AddMetrics(w) ==
    /\ pc[w] = "AddMetrics"
    /\ LET t == heap[dfgetTask[w]]
       IN  IF ~IsSuperPID(t.PeerID) \/ ~IsSuperCID(t.CID)
           THEN /\ dfgetTasks' = Inc(dfgetTasks, <<t.CallSystem, t.Status>>)
                /\ dfgetTasksRegisterCount' = Inc(dfgetTasksRegisterCount, t.CallSystem)
           ELSE UNCHANGED <<dfgetTasks, dfgetTasksRegisterCount>>
    /\ pc' = [pc EXCEPT ![w] = "AddDone"]
    /\ UNCHANGED <<stores, heap, dfgetTasksFailCount, arg, dfgetTask, err, calls, before>>

\* ----------------------------------------------------------------- Delete
\* Delete as it would be if a missing record were no error
Delete_Idempotent(w, clientID, taskID) ==
    /\ Caller(w)
    /\ calls < MaxCalls
    /\ calls' = calls + 1
    /\ before' = Observed
    /\ arg' = [arg EXCEPT ![w] = [clientID |-> clientID, taskID |-> taskID]]
    /\ LET r == getDfgetTask(clientID, taskID)
       IN  /\ err' = [err EXCEPT ![w] = IF r.err = "NotFound" THEN "nil" ELSE r.err]
           /\ dfgetTask' = [dfgetTask EXCEPT ![w] = r.v]
           /\ pc' = [pc EXCEPT ![w] = IF r.err = "nil" THEN "DeletePtoc" ELSE "DeleteDone"]
    /\ UNCHANGED <<stores, heap, metrics>>

\* lines 190-199
Delete(w, clientID, taskID) ==
    /\ Caller(w)
    /\ calls < MaxCalls
    /\ calls' = calls + 1
    /\ before' = Observed
    /\ arg' = [arg EXCEPT ![w] = [clientID |-> clientID, taskID |-> taskID]]
    /\ LET r == getDfgetTask(clientID, taskID)
       IN  /\ err' = [err EXCEPT ![w] = r.err]
           /\ dfgetTask' = [dfgetTask EXCEPT ![w] = r.v]
           /\ pc' = [pc EXCEPT ![w] = IF r.err = "nil" THEN "DeletePtoc" ELSE "DeleteDone"]
    /\ UNCHANGED <<stores, heap, metrics>>

\* DeletePtoc as it would be with the index key built from the caller's
\* client ID instead of the record's peer ID
DeletePtoc_ByClientID(w) ==
    /\ pc[w] = "DeletePtoc"
    /\ ptoc' = MapDelete(ptoc, generatePeerKey(arg[w].clientID, arg[w].taskID))
    /\ pc' = [pc EXCEPT ![w] = "DeleteGauge"]
    /\ UNCHANGED <<dfgetTaskStore, heap, metrics, arg, dfgetTask, err, calls, before>>

\* line 200
DeletePtoc(w) ==
    /\ pc[w] = "DeletePtoc"
    /\ LET t == heap[dfgetTask[w]]
       IN  ptoc' = MapDelete(ptoc, generatePeerKey(t.PeerID, t.TaskID))
    /\ pc' = [pc EXCEPT ![w] = "DeleteGauge"]
    /\ UNCHANGED <<dfgetTaskStore, heap, metrics, arg, dfgetTask, err, calls, before>>

\* DeleteGauge as it would be with the test Add makes: the record is left
\* uncounted only if its peer ID and its client ID are both reserved
DeleteGauge_AsAdd(w) ==
    /\ pc[w] = "DeleteGauge"
    /\ LET t == heap[dfgetTask[w]]
       IN  IF ~IsSuperPID(t.PeerID) \/ ~IsSuperCID(t.CID)
           THEN dfgetTasks' = Dec(dfgetTasks, <<t.CallSystem, t.Status>>)
           ELSE UNCHANGED dfgetTasks
    /\ pc' = [pc EXCEPT ![w] = "DeleteStore"]
    /\ UNCHANGED <<stores, heap, dfgetTasksRegisterCount, dfgetTasksFailCount,
                   arg, dfgetTask, err, calls, before>>

\* lines 201-203
DeleteGauge(w) ==
    /\ pc[w] = "DeleteGauge"
    /\ LET t == heap[dfgetTask[w]]
       IN  IF ~IsSuperCID(arg[w].clientID)
           THEN dfgetTasks' = Dec(dfgetTasks, <<t.CallSystem, t.Status>>)
           ELSE UNCHANGED dfgetTasks
    /\ pc' = [pc EXCEPT ![w] = "DeleteStore"]
    /\ UNCHANGED <<stores, heap, dfgetTasksRegisterCount, dfgetTasksFailCount,
                   arg, dfgetTask, err, calls, before>>

\* line 204: dutil.Store.Delete
DeleteStore(w) ==
    /\ pc[w] = "DeleteStore"
    /\ LET key == generateKey(arg[w].clientID, arg[w].taskID).key
       IN  IF key \in DOMAIN dfgetTaskStore
           THEN /\ dfgetTaskStore' = MapDelete(dfgetTaskStore, key)
                /\ err' = [err EXCEPT ![w] = "nil"]
           ELSE /\ UNCHANGED dfgetTaskStore
                /\ err' = [err EXCEPT ![w] = "NotFound"]
    /\ heap' = Collect(heap, dfgetTaskStore', dfgetTask)
    /\ pc' = [pc EXCEPT ![w] = "DeleteDone"]
    /\ UNCHANGED <<ptoc, metrics, arg, dfgetTask, calls, before>>

\* ----------------------------------------------------------- UpdateStatus
\* UpdateStatus as it would be if a FAILED update were counted before the
\* record is looked up
UpdateStatus_CountsFirst(w, clientID, taskID, status) ==
    /\ Caller(w)
    /\ calls < MaxCalls
    /\ calls' = calls + 1
    /\ before' = Observed
    /\ arg' = [arg EXCEPT ![w] = [clientID |-> clientID, taskID |-> taskID,
                                  status |-> status]]
    /\ LET r == getDfgetTask(clientID, taskID)
       IN  /\ err' = [err EXCEPT ![w] = r.err]
           /\ dfgetTask' = [dfgetTask EXCEPT ![w] = r.v]
           /\ pc' = [pc EXCEPT ![w] =
                        IF r.err # "nil" THEN "UpdateDone"
                        ELSE IF heap[r.v].Status # DfGetTaskStatusSUCCESS
                             THEN "UpdateDec" ELSE "UpdateFail"]
           /\ IF r.err # "nil" /\ status = DfGetTaskStatusFAILED
              THEN dfgetTasksFailCount' = Inc(dfgetTasksFailCount, "a")
              ELSE UNCHANGED dfgetTasksFailCount
    /\ UNCHANGED <<stores, heap, dfgetTasks, dfgetTasksRegisterCount>>

\* UpdateStatus as it would be without the guard on SUCCESS
UpdateStatus_NoGuard(w, clientID, taskID, status) ==
    /\ Caller(w)
    /\ calls < MaxCalls
    /\ calls' = calls + 1
    /\ before' = Observed
    /\ arg' = [arg EXCEPT ![w] = [clientID |-> clientID, taskID |-> taskID,
                                  status |-> status]]
    /\ LET r == getDfgetTask(clientID, taskID)
       IN  /\ err' = [err EXCEPT ![w] = r.err]
           /\ dfgetTask' = [dfgetTask EXCEPT ![w] = r.v]
           /\ pc' = [pc EXCEPT ![w] = IF r.err # "nil" THEN "UpdateDone" ELSE "UpdateDec"]
    /\ UNCHANGED <<stores, heap, metrics>>

\* lines 208-214
UpdateStatus(w, clientID, taskID, status) ==
    /\ Caller(w)
    /\ calls < MaxCalls
    /\ calls' = calls + 1
    /\ before' = Observed
    /\ arg' = [arg EXCEPT ![w] = [clientID |-> clientID, taskID |-> taskID,
                                  status |-> status]]
    /\ LET r == getDfgetTask(clientID, taskID)
       IN  /\ err' = [err EXCEPT ![w] = r.err]
           /\ dfgetTask' = [dfgetTask EXCEPT ![w] = r.v]
           /\ pc' = [pc EXCEPT ![w] =
                        IF r.err # "nil" THEN "UpdateDone"
                        ELSE IF heap[r.v].Status # DfGetTaskStatusSUCCESS
                             THEN "UpdateDec" ELSE "UpdateFail"]
    /\ UNCHANGED <<stores, heap, metrics>>

\* line 215
UpdateDec(w) ==
    /\ pc[w] = "UpdateDec"
    /\ LET t == heap[dfgetTask[w]]
       IN  dfgetTasks' = Dec(dfgetTasks, <<t.CallSystem, t.Status>>)
    /\ pc' = [pc EXCEPT ![w] = "UpdateInc"]
    /\ UNCHANGED <<stores, heap, dfgetTasksRegisterCount, dfgetTasksFailCount,
                   arg, dfgetTask, err, calls, before>>

\* UpdateInc as it would be with the record's status for the new one
UpdateInc_OldStatus(w) ==
    /\ pc[w] = "UpdateInc"
    /\ LET t == heap[dfgetTask[w]]
       IN  dfgetTasks' = Inc(dfgetTasks, <<t.CallSystem, t.Status>>)
    /\ pc' = [pc EXCEPT ![w] = "UpdateSet"]
    /\ UNCHANGED <<stores, heap, dfgetTasksRegisterCount, dfgetTasksFailCount,
                   arg, dfgetTask, err, calls, before>>

\* line 216
UpdateInc(w) ==
    /\ pc[w] = "UpdateInc"
    /\ LET t == heap[dfgetTask[w]]
       IN  dfgetTasks' = Inc(dfgetTasks, <<t.CallSystem, arg[w].status>>)
    /\ pc' = [pc EXCEPT ![w] = "UpdateSet"]
    /\ UNCHANGED <<stores, heap, dfgetTasksRegisterCount, dfgetTasksFailCount,
                   arg, dfgetTask, err, calls, before>>

\* line 217
UpdateSet(w) ==
    /\ pc[w] = "UpdateSet"
    /\ heap' = [heap EXCEPT ![dfgetTask[w]].Status = arg[w].status]
    /\ pc' = [pc EXCEPT ![w] = "UpdateFail"]
    /\ UNCHANGED <<stores, metrics, arg, dfgetTask, err, calls, before>>

\* UpdateFail as it would be with the status asked for in place of the
\* status the record has
UpdateFail_ByArgument(w) ==
    /\ pc[w] = "UpdateFail"
    /\ LET t == heap[dfgetTask[w]]
       IN  IF arg[w].status = DfGetTaskStatusFAILED
           THEN dfgetTasksFailCount' = Inc(dfgetTasksFailCount, t.CallSystem)
           ELSE UNCHANGED dfgetTasksFailCount
    /\ pc' = [pc EXCEPT ![w] = "UpdateDone"]
    /\ UNCHANGED <<stores, heap, dfgetTasks, dfgetTasksRegisterCount,
                   arg, dfgetTask, err, calls, before>>

\* lines 220-225
UpdateFail(w) ==
    /\ pc[w] = "UpdateFail"
    /\ LET t == heap[dfgetTask[w]]
       IN  IF t.Status = DfGetTaskStatusFAILED
           THEN dfgetTasksFailCount' = Inc(dfgetTasksFailCount, t.CallSystem)
           ELSE UNCHANGED dfgetTasksFailCount
    /\ pc' = [pc EXCEPT ![w] = "UpdateDone"]
    /\ UNCHANGED <<stores, heap, dfgetTasks, dfgetTasksRegisterCount,
                   arg, dfgetTask, err, calls, before>>

\* ----------------------------------------------------------------- Return
\* the call of worker w has returned to its caller, which drops its locals
Return(w) ==
    /\ pc[w] \in {"AddDone", "DeleteDone", "UpdateDone"}
    /\ pc' = [pc EXCEPT ![w] = "idle"]
    /\ arg' = [arg EXCEPT ![w] = <<>>]
    /\ dfgetTask' = [dfgetTask EXCEPT ![w] = 0]
    /\ err' = [err EXCEPT ![w] = "nil"]
    /\ heap' = Collect(heap, dfgetTaskStore, dfgetTask')
    /\ before' = <<>>
    /\ UNCHANGED <<stores, metrics, calls>>

\* ------------------------------------------------------- specifications
\* the steps of the calls under way
Steps(w) ==
    \/ AddPtoc(w)
    \/ AddPut(w)
    \/ AddMetrics(w)
    \/ DeletePtoc(w)
    \/ DeleteGauge(w)
    \/ DeleteStore(w)
    \/ UpdateDec(w)
    \/ UpdateInc(w)
    \/ UpdateSet(w)
    \/ UpdateFail(w)

\* a call with arguments among the records T, the client IDs C and the task IDs K
Call(w, T, C, K) ==
    \/ \E t \in T : Add(w, t)
    \/ \E c \in C, k \in K : Delete(w, c, k)
    \/ \E c \in C, k \in K, s \in NewStatuses : UpdateStatus(w, c, k, s)

\* one call at a time: a call begins only when no other call is under way
SeqNext ==
    \E w \in Workers :
        \/ /\ \A v \in Workers : pc[v] = "idle"
           /\ Call(w, Tasks, CIDs \cup {<<>>}, TaskIDs \cup {<<>>})
        \/ Steps(w)
        \/ Return(w)

SeqSpec == Init /\ [][SeqNext]_vars

\* concurrent Add calls, one per goroutine, of well-formed records with
\* pairwise distinct (client ID, task ID)
AddNext ==
    \E w \in Workers :
        \/ \E t \in WideTasks :
              /\ \A v \in Workers : pc[v] # "idle" =>
                     <<arg[v].CID, arg[v].TaskID>> # <<t.CID, t.TaskID>>
              /\ Add(w, t)
        \/ AddPtoc(w)
        \/ AddPut(w)
        \/ AddMetrics(w)

AddSpec == Init /\ [][AddNext]_vars

\* Add calls one at a time, one per goroutine, of records whose identifiers
\* hold no join character; the scans read the index they leave
ScanNext ==
    \E w \in Workers :
        \/ \E t \in ScanTasks :
              /\ \A v \in Workers : pc[v] \in {"idle", "AddDone"}
              /\ Add(w, t)
        \/ AddPtoc(w)
        \/ AddPut(w)
        \/ AddMetrics(w)

ScanSpec == Init /\ [][ScanNext]_vars

\* calls of Add, Delete and UpdateStatus on one key by concurrent goroutines,
\* their steps interleaved in any way: the Manager holds no lock of its own,
\* each store operation is atomic by itself
Next ==
    \E w \in Workers :
        \/ Call(w, ConcTasks, ConcCIDs, ConcTaskIDs)
        \/ Steps(w)
        \/ Return(w)

Spec == Init /\ [][Next]_vars

\* ------------------------------------------------------- claims: helpers
\* the required fields of record t are all given
WellFormed(t) ==
    t.Path # <<>> /\ t.PeerID # <<>> /\ t.CID # <<>> /\ t.TaskID # <<>>

\* record t as the registry is to hold it: an absent status reads WAITING
Stored(t) == [t EXCEPT !.Status = IF @ = "" THEN DfGetTaskStatusWAITING ELSE @]

AddPcs == {"AddPtoc", "AddPut", "AddMetrics", "AddDone"}
DeletePcs == {"DeletePtoc", "DeleteGauge", "DeleteStore", "DeleteDone"}
UpdatePcs == {"UpdateDec", "UpdateInc", "UpdateSet", "UpdateFail", "UpdateDone"}

Quiescent == \A w \in Workers : pc[w] = "idle"

\* ---------------------------------------------------------------- C1
\* C1: when Add of a record with non-empty path, peer ID, client ID and task
\* ID has returned, and nothing else has run, it has returned success,
\* Get(client, task) yields a record equal to the one added (its status
\* WAITING if none was given) and GetCIDByPeerIDAndTaskID(peer, task) yields
\* the record's client ID.
C1_AddThenGet ==
    \A w \in Workers :
        (pc[w] = "AddDone" /\ WellFormed(arg[w])) =>
            LET t == arg[w]
                g == Get(t.CID, t.TaskID)
            IN  /\ err[w] = "nil"
                /\ g.err = "nil"
                /\ heap[g.v] = Stored(t)
                /\ GetCIDByPeerIDAndTaskID(t.PeerID, t.TaskID) = [err |-> "nil", v |-> t.CID]

\* an Add without a status has returned success into a registry that holds
\* another record as well
C1_Witness ==
    \E w \in Workers :
        /\ pc[w] = "AddDone"
        /\ err[w] = "nil"
        /\ arg[w].Status = ""
        /\ Cardinality(DOMAIN dfgetTaskStore) >= 2

\* ---------------------------------------------------------------- C2
\* C2: an Add of a record whose path, peer ID, client ID or task ID is empty
\* returns EmptyValue at once, and the primary store, the peer index and all
\* metrics are as they were when the call began.
C2_AddEmptyValue ==
    \A w \in Workers :
        (pc[w] \in AddPcs /\ ~WellFormed(arg[w])) =>
            /\ pc[w] = "AddDone"
            /\ err[w] = "EmptyValue"
            /\ Snapshot = before

\* an Add without a task ID has been refused by a registry that holds records
C2_Witness ==
    \E w \in Workers :
        /\ pc[w] = "AddDone"
        /\ err[w] = "EmptyValue"
        /\ arg[w].TaskID = <<>>
        /\ arg[w].Path # <<>>
        /\ DOMAIN dfgetTaskStore # {}
        /\ DOMAIN ptoc # {}

\* ---------------------------------------------------------------- C3
\* C3: when Delete(client, task) of an existing record has returned, it has
\* returned success, Get(client, task) fails with NotFound and so does
\* GetCIDByPeerIDAndTaskID(peer, task) for the peer ID and task ID of the
\* deleted record.
C3_DeleteThenNotFound ==
    \A w \in Workers :
        (pc[w] = "DeleteDone" /\ before # <<>>) =>
            LET k == generateKey(arg[w].clientID, arg[w].taskID)
            IN  (k.err = "nil" /\ k.key \in DOMAIN before.Records) =>
                    LET r == before.Records[k.key]
                    IN  /\ err[w] = "nil"
                        /\ Get(arg[w].clientID, arg[w].taskID).err = "NotFound"
                        /\ GetCIDByPeerIDAndTaskID(r.PeerID, r.TaskID).err = "NotFound"

\* a Delete has returned success and left another record in the registry
C3_Witness ==
    \E w \in Workers :
        /\ pc[w] = "DeleteDone"
        /\ err[w] = "nil"
        /\ dfgetTask[w] # 0
        /\ DOMAIN dfgetTaskStore # {}

\* ---------------------------------------------------------------- C4
\* C4: a Delete(client, task) with non-empty identifiers for which the primary
\* store holds no record returns NotFound at once, and the primary store, the
\* peer index and all metrics are as they were when the call began.
C4_DeleteMissing ==
    \A w \in Workers :
        (pc[w] \in DeletePcs /\ before # <<>>) =>
            LET k == generateKey(arg[w].clientID, arg[w].taskID)
            IN  (k.err = "nil" /\ k.key \notin DOMAIN before.Records) =>
                    /\ pc[w] = "DeleteDone"
                    /\ err[w] = "NotFound"
                    /\ Snapshot = before

\* a Delete of a missing record has been refused by a registry that holds
\* other records and index entries
C4_Witness ==
    \E w \in Workers :
        /\ pc[w] = "DeleteDone"
        /\ err[w] = "NotFound"
        /\ arg[w].clientID # <<>>
        /\ arg[w].taskID # <<>>
        /\ DOMAIN dfgetTaskStore # {}
        /\ DOMAIN ptoc # {}

DistinctKeys ==
    \A v, w \in Workers :
        (v # w /\ pc[v] = "AddDone" /\ pc[w] = "AddDone") =>
            generateKey(arg[v].CID, arg[v].TaskID).key
                # generateKey(arg[w].CID, arg[w].TaskID).key

IndexOf(R) == {<<generatePeerKey(r.PeerID, r.TaskID), r.CID>> : r \in R}
LiveRecords == {Records[k] : k \in DOMAIN dfgetTaskStore}

\* C6: whenever no call is under way, the entries of the peer index are
\* exactly (peer, task) -> client of the live records.
C6_IndexInLockstep ==
    Quiescent => {<<k, ptoc[k]>> : k \in DOMAIN ptoc} = IndexOf(LiveRecords)

\* ---------------------------------------------------------------- C7
\* the record is one the supernode made for itself
Internal(r) == IsSuperPID(r.PeerID) /\ IsSuperCID(r.CID)

\* C7: whenever no call is under way, the gauge of every (call system,
\* status) is the number of live records with that call system and status
\* that the supernode did not make for itself.
C7_GaugeCountsLive ==
    Quiescent =>
        \A l \in CallSystems \X StatusLabels :
            dfgetTasks[l] =
                Cardinality({k \in DOMAIN dfgetTaskStore :
                                /\ Records[k].CallSystem = l[1]
                                /\ Records[k].Status = l[2]
                                /\ ~Internal(Records[k])})

\* ---------------------------------------------------------------- C8
\* the record the call under way found under its (client ID, task ID) when it
\* began, if there was one
Target(w) == generateKey(arg[w].clientID, arg[w].taskID)
Found(w) == before # <<>> /\ Target(w).err = "nil" /\ Target(w).key \in DOMAIN before.Records
Old(w) == before.Records[Target(w).key]

\* C8: when UpdateStatus(client, task, new) of an existing record whose status
\* is not SUCCESS has returned, it has returned success, the gauge of (call
\* system, old status) is one less and that of (call system, new) one more
\* than when the call began, and Get(client, task) yields the record with its
\* status new.
C8_UpdateMovesGauge ==
    \A w \in Workers :
        (pc[w] = "UpdateDone" /\ Found(w) /\ Old(w).Status # DfGetTaskStatusSUCCESS) =>
            LET g == Get(arg[w].clientID, arg[w].taskID)
            IN  /\ err[w] = "nil"
                /\ dfgetTasks = Inc(Dec(before.dfgetTasks, <<Old(w).CallSystem, Old(w).Status>>),
                                    <<Old(w).CallSystem, arg[w].status>>)
                /\ g.err = "nil"
                /\ heap[g.v] = [Old(w) EXCEPT !.Status = arg[w].status]

\* an UpdateStatus has moved a WAITING record to RUNNING
C8_Witness ==
    \E w \in Workers :
        /\ pc[w] = "UpdateDone"
        /\ Found(w)
        /\ Old(w).Status = DfGetTaskStatusWAITING
        /\ arg[w].status = DfGetTaskStatusRUNNING
        /\ before.dfgetTasks[<<Old(w).CallSystem, DfGetTaskStatusWAITING>>] = 1
        /\ dfgetTasks[<<Old(w).CallSystem, DfGetTaskStatusRUNNING>>] = 1

\* ---------------------------------------------------------------- C9
\* C9 as stated: when UpdateStatus(client, task, FAILED) of a record whose
\* status is SUCCESS has returned, the status is SUCCESS, the gauge is as it
\* was, and the failure counter of the record's call system is one more than
\* when the call began.
C9_FailedOnSuccessCounts ==
    \A w \in Workers :
        (/\ pc[w] = "UpdateDone"
         /\ Found(w)
         /\ Old(w).Status = DfGetTaskStatusSUCCESS
         /\ arg[w].status = DfGetTaskStatusFAILED) =>
            /\ Records[Target(w).key].Status = DfGetTaskStatusSUCCESS
            /\ dfgetTasks = before.dfgetTasks
            /\ dfgetTasksFailCount = Inc(before.dfgetTasksFailCount, Old(w).CallSystem)

\* C9 as amended: when UpdateStatus(client, task, FAILED) of a record whose
\* status is SUCCESS has returned, the status is SUCCESS, the gauge is as it
\* was, and so is the failure counter.
C9_FailedOnSuccessIgnored ==
    \A w \in Workers :
        (/\ pc[w] = "UpdateDone"
         /\ Found(w)
         /\ Old(w).Status = DfGetTaskStatusSUCCESS
         /\ arg[w].status = DfGetTaskStatusFAILED) =>
            /\ err[w] = "nil"
            /\ Records[Target(w).key].Status = DfGetTaskStatusSUCCESS
            /\ dfgetTasks = before.dfgetTasks
            /\ dfgetTasksFailCount = before.dfgetTasksFailCount

\* an UpdateStatus to FAILED has returned from a record that was SUCCESS
C9_Witness ==
    \E w \in Workers :
        /\ pc[w] = "UpdateDone"
        /\ Found(w)
        /\ Old(w).Status = DfGetTaskStatusSUCCESS
        /\ arg[w].status = DfGetTaskStatusFAILED

\* ---------------------------------------------------------------- C10
\* C10: an UpdateStatus, whatever the new status, of a record whose status is
\* SUCCESS returns success, and throughout the call the records of the
\* primary store, the peer index and the gauge are as they were when it began.
C10_SuccessIsSticky ==
    \A w \in Workers :
        (pc[w] \in UpdatePcs /\ Found(w) /\ Old(w).Status = DfGetTaskStatusSUCCESS) =>
            /\ err[w] = "nil"
            /\ Records = before.Records
            /\ ptoc = before.ptoc
            /\ dfgetTasks = before.dfgetTasks

\* an UpdateStatus to RUNNING has returned from a record that was SUCCESS
C10_Witness ==
    \E w \in Workers :
        /\ pc[w] = "UpdateDone"
        /\ Found(w)
        /\ Old(w).Status = DfGetTaskStatusSUCCESS
        /\ arg[w].status = DfGetTaskStatusRUNNING

\* ---------------------------------------------------------------- C11
\* C11: when an Add has returned success, the gauge of (call system, initial
\* status) and the registration counter of the call system are one more than
\* when the call began, the initial status being WAITING if none was given
\* and the given one otherwise, and no other metric has changed; unless the
\* peer ID and the client ID of the record are both reserved, and then no
\* metric has changed.  A record with one reserved identity is counted.
C11_AddCounts ==
    \A w \in Workers :
        (pc[w] = "AddDone" /\ err[w] = "nil" /\ before # <<>>) =>
            LET t == Stored(arg[w])
            IN  /\ dfgetTasks =
                       IF Internal(t) THEN before.dfgetTasks
                       ELSE Inc(before.dfgetTasks, <<t.CallSystem, t.Status>>)
                /\ dfgetTasksRegisterCount =
                       IF Internal(t) THEN before.dfgetTasksRegisterCount
                       ELSE Inc(before.dfgetTasksRegisterCount, t.CallSystem)
                /\ dfgetTasksFailCount = before.dfgetTasksFailCount

\* an Add of a RUNNING record with a reserved peer ID and a client ID that is
\* not reserved has returned and been counted, the second of its call system
C11_Witness ==
    \E w \in Workers :
        /\ pc[w] = "AddDone"
        /\ err[w] = "nil"
        /\ IsSuperPID(arg[w].PeerID)
        /\ ~IsSuperCID(arg[w].CID)
        /\ arg[w].Status = DfGetTaskStatusRUNNING
        /\ dfgetTasksRegisterCount[arg[w].CallSystem] = 2

\* ---------------------------------------------------------------- C12
\* C12: when a Delete(client, task) has returned success, the gauge of (call
\* system, status) of the deleted record, its status being the one it had
\* when the call began, is one less than it was then and no other gauge has
\* changed; unless the client ID is reserved, and then no gauge has changed.
\* The two counters are as they were.
C12_DeleteCounts ==
    \A w \in Workers :
        (pc[w] = "DeleteDone" /\ err[w] = "nil" /\ Found(w)) =>
            /\ dfgetTasks =
                   IF IsSuperCID(arg[w].clientID) THEN before.dfgetTasks
                   ELSE Dec(before.dfgetTasks, <<Old(w).CallSystem, Old(w).Status>>)
            /\ dfgetTasksRegisterCount = before.dfgetTasksRegisterCount
            /\ dfgetTasksFailCount = before.dfgetTasksFailCount

\* a Delete of a SUCCESS record whose client ID is not reserved has returned
C12_Witness ==
    \E w \in Workers :
        /\ pc[w] = "DeleteDone"
        /\ err[w] = "nil"
        /\ Found(w)
        /\ ~IsSuperCID(arg[w].clientID)
        /\ Old(w).Status = DfGetTaskStatusSUCCESS

\* ---------------------------------------------------------------- C17
\* C17: an UpdateStatus(client, task, s) for which the primary store holds no
\* record returns at once, with EmptyValue if the client ID or the task ID is
\* empty and NotFound otherwise, and the records of the primary store, the
\* peer index, the gauge and the counters are as they were when the call
\* began, whatever s is.
C17_UpdateMissing ==
    \A w \in Workers :
        (pc[w] \in UpdatePcs /\ before # <<>> /\ ~Found(w)) =>
            /\ pc[w] = "UpdateDone"
            /\ err[w] = IF Target(w).err # "nil" THEN "EmptyValue" ELSE "NotFound"
            /\ Snapshot = before

\* an UpdateStatus to FAILED of a missing record has been refused by a
\* registry that holds other records
C17_Witness ==
    \E w \in Workers :
        /\ pc[w] = "UpdateDone"
        /\ err[w] = "NotFound"
        /\ arg[w].status = DfGetTaskStatusFAILED
        /\ DOMAIN dfgetTaskStore # {}

\* ---------------------------------------------------------------- C18
\* C18: in every reachable state, whatever calls of Add, Delete and
\* UpdateStatus have run, on reserved identities and re-added keys too, no
\* value of the gauge is negative.
C18_GaugeNonNegative ==
    \A l \in DOMAIN dfgetTasks : dfgetTasks[l] >= 0

\* ---------------------------------------------------------------- C13
\* the Add calls made so far have all returned
AddsReturned == \A w \in Workers : pc[w] \in {"idle", "AddDone"}

\* the Add calls made so far had pairwise distinct (client ID, task ID) and
\* pairwise distinct (peer ID, task ID)
DistinctPairs ==
    \A v, w \in Workers :
        (v # w /\ pc[v] # "idle" /\ pc[w] # "idle") =>
            /\ <<arg[v].CID, arg[v].TaskID>> # <<arg[w].CID, arg[w].TaskID>>
            /\ <<arg[v].PeerID, arg[v].TaskID>> # <<arg[w].PeerID, arg[w].TaskID>>

\* how many times cid occurs in the sequence r
Count(r, cid) == Cardinality({i \in DOMAIN r : r[i] = cid})

\* C13: with identifiers that hold no join character, once Add calls with
\* pairwise distinct (client, task) and pairwise distinct (peer, task) have
\* returned, GetCIDsByTaskID(T) returns, in whatever order, each client ID as
\* many times as there are live records with that client ID and task ID T.
C13_CIDsOfTask ==
    (AddsReturned /\ DistinctPairs) =>
        \A T \in ScanTaskIDs : \A r \in GetCIDsByTaskID(T) :
            /\ \A i \in DOMAIN r : r[i] \in ScanCIDs
            /\ \A cid \in ScanCIDs :
                   Count(r, cid) =
                       Cardinality({k \in DOMAIN dfgetTaskStore :
                                       Records[k].TaskID = T /\ Records[k].CID = cid})

\* three records of one task, with three peer IDs and three client IDs, have
\* been added, next to none of another task whose ID ends alike
C13_Witness ==
    /\ \A w \in Workers : pc[w] = "AddDone" /\ arg[w].TaskID = <<"t">>
    /\ DistinctPairs
    /\ \E r \in GetCIDsByTaskID(<<"t">>) : {r[i] : i \in DOMAIN r} = ScanCIDs
    /\ GetCIDsByTaskID(<<"u", "t">>) = {<<>>}

\* ---------------------------------------------------------------- C14
\* C14: with identifiers that hold no join character, in every state reached
\* by Add calls, every map GetCIDAndTaskIDsByPeerID(P) can return holds only
\* pairs cid -> task for which the index holds (P, task) -> cid, and holds as
\* a key every client ID the index holds under P.
C14_CIDsOfPeer ==
    \A P \in ScanPeerIDs : \A result \in GetCIDAndTaskIDsByPeerID(P) :
        /\ \A cid \in DOMAIN result :
               GetCIDByPeerIDAndTaskID(P, result[cid]) = [err |-> "nil", v |-> cid]
        /\ \A T \in ScanTaskIDs :
               LET g == GetCIDByPeerIDAndTaskID(P, T)
               IN  g.err = "nil" => g.v \in DOMAIN result

\* peer p holds one client ID under two tasks, so that the map returned for
\* it depends on the order of the range, next to an entry of a peer whose ID
\* begins alike
C14_Witness ==
    /\ AddsReturned
    /\ Cardinality(GetCIDAndTaskIDsByPeerID(<<"p">>)) = 2
    /\ generatePeerKey(<<"p", "q">>, <<"t">>) \in DOMAIN ptoc

\* ---------------------------------------------------------------- C15
\* the index entries made by an Add with task ID T, and with peer ID P
EntriesOfTask(T) ==
    {key \in DOMAIN ptoc : \E P \in WidePeerIDs : key = generatePeerKey(P, T)}

\* C15: for identifiers that may hold the join character, GetCIDsByTaskID(T)
\* returns the client IDs of the index entries whose task ID is T and of no
\* other entry, and every pair cid -> task that GetCIDAndTaskIDsByPeerID(P)
\* returns is the client ID and the task ID of an index entry whose peer ID
\* is P.
C15_NoAmbiguity ==
    /\ \A T \in WideTaskIDs : \A r \in GetCIDsByTaskID(T) :
           /\ Len(r) = Cardinality(EntriesOfTask(T))
           /\ \A cid \in WideCIDs :
                  Count(r, cid) =
                      Cardinality({key \in EntriesOfTask(T) : ptoc[key] = cid})
    /\ \A P \in WidePeerIDs : \A result \in GetCIDAndTaskIDsByPeerID(P) :
           \A cid \in DOMAIN result :
               /\ result[cid] \in WideTaskIDs
               /\ GetCIDByPeerIDAndTaskID(P, result[cid]) = [err |-> "nil", v |-> cid]

\* ---------------------------------------------------------------- C16
\* two goroutines have each made an Add of one key with different records and
\* are through with it, and no other call has been made
TwoAddsDone(v, w) ==
    /\ v # w
    /\ calls = 2
    /\ pc[v] = "AddDone" /\ pc[w] = "AddDone"
    /\ generateKey(arg[v].CID, arg[v].TaskID) = generateKey(arg[w].CID, arg[w].TaskID)
    /\ arg[v] # arg[w]

\* C16: once two concurrent Add calls of one (client, task) with different
\* records have both returned, the primary store holds one of the two records
\* under that key, and the index maps (peer, task) to this client for the peer
\* of the stored record and for no other peer.
C16_OneWriter ==
    \A v, w \in Workers :
        TwoAddsDone(v, w) =>
            LET g == Get(arg[v].CID, arg[v].TaskID)
            IN  /\ g.err = "nil"
                /\ heap[g.v] \in {Stored(arg[v]), Stored(arg[w])}
                /\ \A P \in ConcPeerIDs :
                       GetCIDByPeerIDAndTaskID(P, arg[v].TaskID)
                               = [err |-> "nil", v |-> arg[v].CID]
                           <=> P = heap[g.v].PeerID

\* ---------------------------------------------------------------- C19
\* one record has been added by a call that has returned, and two goroutines
\* have each made a Delete of it while the primary store held it (each has
\* the record it looked up) and are through with it
TwoDeletesDone(v, w) ==
    /\ v # w
    /\ calls = 3
    /\ dfgetTasksRegisterCount["a"] = 1
    /\ pc[v] = "DeleteDone" /\ pc[w] = "DeleteDone"
    /\ dfgetTask[v] # 0 /\ dfgetTask[w] # 0
    /\ \A u \in Workers \ {v, w} : pc[u] = "idle"

\* C19: once two concurrent Delete calls of one existing (client, task) whose
\* client ID is not reserved have both returned, one has returned success and
\* the other NotFound, and the gauge of the record has been decremented once:
\* counted up by the Add, it is back to zero.
C19_OneDelete ==
    \A v, w \in Workers :
        TwoDeletesDone(v, w) =>
            /\ {err[v], err[w]} = {"nil", "NotFound"}
            /\ \A l \in DOMAIN dfgetTasks : dfgetTasks[l] = 0

\* ---------------------------------------------------------------- C20
\* C20: a record that stays in the primary store under its key and whose
\* status is SUCCESS keeps that status in every step, whatever calls of
\* UpdateStatus are under way.
C20_SuccessTerminal ==
    [][\A k \in DOMAIN dfgetTaskStore \cap DOMAIN dfgetTaskStore' :
           (/\ dfgetTaskStore'[k] = dfgetTaskStore[k]
            /\ heap[dfgetTaskStore[k]].Status = DfGetTaskStatusSUCCESS)
               => heap'[dfgetTaskStore'[k]].Status = DfGetTaskStatusSUCCESS]_vars

====
